---- MODULE Spec2Model ----
(***************************************************************************)
(* Stellar evolution and orbital dynamics model of the stellar-forge App.  *)
(*                                                                         *)
(* Numbers are fixed point:                                                *)
(*   mass            tenths of a solar mass (the mass slider's step)       *)
(*   age, lifespan   1/10000 of a billion years (AgeUnit per BY)           *)
(*   multipliers     thousandths (Milli)                                   *)
(*   scale, distance 1/10000 of a scene unit                               *)
(*   real time       milliseconds                                          *)
(*                                                                         *)
(* Real time is kept only for the explosion timeouts (remaining delay of   *)
(* each pending setTimeout, oldest first).  The 50 ms clock interval is a  *)
(* step that may be taken whenever the interval exists; it is not tied to  *)
(* the milliseconds counted for the timeouts.                              *)
(***************************************************************************)
EXTENDS Integers, Sequences, FiniteSets, TLC

VARIABLES mass, age, exploded, isPlaying, focusTarget, selectedPlanet,
          isDead, timers, asteroidShown, kuiperShown,
          sinceEntry, sinceTrigger, retriggered, resetSinceEntry, lastStep

vars == <<mass, age, exploded, isPlaying, focusTarget, selectedPlanet,
          isDead, timers, asteroidShown, kuiperShown,
          sinceEntry, sinceTrigger, retriggered, resetSinceEntry, lastStep>>

-----------------------------------------------------------------------------
(* Units and program constants *)

\* fixed-point scales (model units, not program values)
AgeUnit == 10 * 1000
Milli == 10 * 100

\* age slider max / clock clamp: 15 BY
MaxAge == 15 * AgeUnit
\* clock threshold "prev >= 14.9"
ClampThreshold == 149 * (AgeUnit \div 10)
\* clock increment 0.05 BY per 50 ms tick
AgeStep == 5 * (AgeUnit \div 100)
\* setTimeout(..., 2000)
ExplodeDelayMs == 2000
\* mass > 8 selects the supernova remnant
SupernovaMass == 80

-----------------------------------------------------------------------------
(* Arithmetic helpers standing for Math.sqrt, Math.pow and Math.log *)

RECURSIVE IsqrtSearch(_, _, _)
IsqrtSearch(n, lo, hi) ==
    IF lo >= hi THEN lo
    ELSE LET mid == (lo + hi + 1) \div 2
         IN  IF mid * mid <= n THEN IsqrtSearch(n, mid, hi)
                               ELSE IsqrtSearch(n, lo, mid - 1)

\* floor(sqrt(n)) for 0 <= n < 2^31
Isqrt(n) == IsqrtSearch(n, 0, 46340)

\* the mass slider's positions: min 0.5, max 15, step 0.1
MassSlider == 5 .. 150

\* Math.pow(mass, 0.5) in thousandths, mass in tenths (tabulated once)
SqrtMassTable == [m \in MassSlider |-> Isqrt(m * 100000)]
SqrtMass(m) == SqrtMassTable[m]

\* Math.pow(mass, 2.5) in units of 1/100000, mass in tenths
Pow25(m) == m * m * SqrtMass(m)

\* 10 / x in AgeUnit, x in units of 1/100000: 10^10 / x without overflow
TenOver(x) ==
    LET q == 1000000000 \div x
        r == 1000000000 % x
    IN  q * 10 + (r * 10) \div x

RECURSIVE LnReduce(_, _)
\* halve y (scaled by 10000) into [1, 2), counting the halvings
LnReduce(y, k) == IF y >= 20000 THEN LnReduce(y \div 2, k + 1) ELSE <<y, k>>

\* Math.log(x) scaled by 10000, x scaled by 10000, x >= 1:
\* ln x = k ln 2 + 2 atanh((y-1)/(y+1)) with y = x / 2^k in [1, 2)
Ln(x) ==
    LET yk == LnReduce(x, 0)
        y  == yk[1]
        k  == yk[2]
        z  == ((y - 10000) * 10000) \div (y + 10000)
        z2 == (z * z) \div 10000
        z3 == (z * z2) \div 10000
        z5 == (z3 * z2) \div 10000
        z7 == (z5 * z2) \div 10000
    IN  k * 6931 + 2 * (z + z3 \div 3 + z5 \div 5 + z7 \div 7)

-----------------------------------------------------------------------------
(* 0. PHYSICS ENGINE *)

\* lifespan = 10 / Math.pow(mass, 2.5) + 0.5 (tabulated once per mass)
LifespanTable == [m \in MassSlider |-> TenOver(Pow25(m)) + AgeUnit \div 2]
Lifespan(m) == LifespanTable[m]

\* deathStart / redGiantEnd = lifespan * 1.2
RedGiantEnd(m) == (Lifespan(m) * 12) \div 10

\* baseSize = Math.log(mass + 1) * 1.5 (tabulated once per mass)
BaseSizeTable == [m \in MassSlider |-> (Ln((m + 10) * 1000) * 3) \div 2]
BaseSize(m) == BaseSizeTable[m]

\* (age - lifespan) / (redGiantEnd - lifespan), in thousandths
Progress(m, a) ==
    ((a - Lifespan(m)) * Milli) \div (RedGiantEnd(m) - Lifespan(m))

\* useStarPhysics as it would be with the two remnant scales exchanged
useStarPhysicsSwappedRemnant(m, a) ==
    LET redGiantStart == Lifespan(m)
        deathStart    == RedGiantEnd(m)
        baseSize      == BaseSize(m)
    IN  IF a < redGiantStart
        THEN [stage |-> "Main Sequence",
              color |-> IF m > 20 THEN "#aaddff"
                        ELSE IF m > 8 THEN "#ffaa00" ELSE "#ff5500",
              scale |-> baseSize]
        ELSE IF a >= redGiantStart /\ a < deathStart
        THEN [stage |-> "Red Giant",
              color |-> "#ff0000",
              scale |-> (baseSize * (Milli + Progress(m, a) * 5)) \div Milli]
        ELSE LET isSupernova == m > SupernovaMass
             IN  [stage |-> IF isSupernova THEN "SUPERNOVA" ELSE "White Dwarf",
                  color |-> "#ffffff",
                  scale |-> IF isSupernova THEN (baseSize * 2) \div 10
                                           ELSE (baseSize * 5) \div 10]

\* useStarPhysics as it would be with the first comparison written "<="
useStarPhysicsLateGiant(m, a) ==
    LET redGiantStart == Lifespan(m)
        deathStart    == RedGiantEnd(m)
        baseSize      == BaseSize(m)
    IN  IF a <= redGiantStart
        THEN [stage |-> "Main Sequence",
              color |-> IF m > 20 THEN "#aaddff"
                        ELSE IF m > 8 THEN "#ffaa00" ELSE "#ff5500",
              scale |-> baseSize]
        ELSE IF a >= redGiantStart /\ a < deathStart
        THEN [stage |-> "Red Giant",
              color |-> "#ff0000",
              scale |-> (baseSize * (Milli + Progress(m, a) * 5)) \div Milli]
        ELSE LET isSupernova == m > SupernovaMass
             IN  [stage |-> IF isSupernova THEN "SUPERNOVA" ELSE "White Dwarf",
                  color |-> "#ffffff",
                  scale |-> IF isSupernova THEN (baseSize * 5) \div 10
                                           ELSE (baseSize * 2) \div 10]

useStarPhysics(m, a) ==
    LET redGiantStart == Lifespan(m)
        deathStart    == RedGiantEnd(m)
        baseSize      == BaseSize(m)
    IN  IF a < redGiantStart
        THEN [stage |-> "Main Sequence",
              color |-> IF m > 20 THEN "#aaddff"
                        ELSE IF m > 8 THEN "#ffaa00" ELSE "#ff5500",
              scale |-> baseSize]
        ELSE IF a >= redGiantStart /\ a < deathStart
        THEN [stage |-> "Red Giant",
              color |-> "#ff0000",
              scale |-> (baseSize * (Milli + Progress(m, a) * 5)) \div Milli]
        ELSE LET isSupernova == m > SupernovaMass
             IN  [stage |-> IF isSupernova THEN "SUPERNOVA" ELSE "White Dwarf",
                  color |-> "#ffffff",
                  scale |-> IF isSupernova THEN (baseSize * 5) \div 10
                                           ELSE (baseSize * 2) \div 10]

\* "10 / Math.pow(mass, 2.5) + 0.5" for any mass the functions may be called
\* with, in IEEE arithmetic: a negative base gives NaN, zero gives Infinity;
\* nothing in either function clamps or rejects the argument first
lifespanOf(m) ==
    IF m < 0 THEN [kind |-> "NaN", v |-> 0]
    ELSE IF m = 0 THEN [kind |-> "Infinity", v |-> 0]
    ELSE [kind |-> "finite", v |-> Lifespan(m)]

\* lifespan * 1.2
deathStartOf(m) ==
    LET l == lifespanOf(m)
    IN  IF l.kind = "finite" THEN [kind |-> "finite", v |-> RedGiantEnd(m)]
        ELSE l

\* a < x and a >= x for a finite a; every comparison with NaN is false
jsLess(a, x) == (x.kind = "finite" /\ a < x.v) \/ x.kind = "Infinity"
jsGeq(a, x) == x.kind = "finite" /\ a >= x.v

\* the stage useStarPhysics returns for any mass
stageOf(m, a) ==
    IF jsLess(a, lifespanOf(m)) THEN "Main Sequence"
    ELSE IF jsGeq(a, lifespanOf(m)) /\ jsLess(a, deathStartOf(m))
    THEN "Red Giant"
    ELSE IF m > SupernovaMass THEN "SUPERNOVA" ELSE "White Dwarf"

\* massMultiplier as it would be with the remnant branch written ">"
massMultiplierOpenEnd(starMass, starAge) ==
    LET lifespan    == Lifespan(starMass)
        redGiantEnd == RedGiantEnd(starMass)
    IN  IF starAge > lifespan /\ starAge < redGiantEnd
        THEN Milli - ((starAge - lifespan) * 600) \div (redGiantEnd - lifespan)
        ELSE IF starAge > redGiantEnd THEN 400
        ELSE Milli

\* massMultiplier as it would be without the upper end of the red-giant
\* window, the mass loss running on past redGiantEnd
massMultiplierNoFloor(starMass, starAge) ==
    LET lifespan    == Lifespan(starMass)
        redGiantEnd == RedGiantEnd(starMass)
    IN  IF starAge > lifespan
        THEN Milli - ((starAge - lifespan) * 600) \div (redGiantEnd - lifespan)
        ELSE Milli

\* massMultiplier of getSystemPhysics, in thousandths
massMultiplier(starMass, starAge) ==
    LET lifespan    == Lifespan(starMass)
        redGiantEnd == RedGiantEnd(starMass)
    IN  IF starAge > lifespan /\ starAge < redGiantEnd
        THEN Milli - ((starAge - lifespan) * 600) \div (redGiantEnd - lifespan)
        ELSE IF starAge >= redGiantEnd THEN 400
        ELSE Milli

\* getSystemPhysics as it would be if its lifespan lacked the "+ 0.5" that
\* useStarPhysics adds
getSystemPhysicsShortLife(starMass, starAge) ==
    [currentMass |-> starMass * massMultiplier(starMass, starAge),
     lifespan    |-> Lifespan(starMass) - AgeUnit \div 2,
     redGiantEnd |-> ((Lifespan(starMass) - AgeUnit \div 2) * 12) \div 10]

\* currentMass is in 1/10000 of a solar mass (tenths times thousandths)
getSystemPhysics(starMass, starAge) ==
    [currentMass |-> starMass * massMultiplier(starMass, starAge),
     lifespan    |-> Lifespan(starMass),
     redGiantEnd |-> RedGiantEnd(starMass)]

-----------------------------------------------------------------------------
(* 4. PLANETS: the catalog of PlanetarySystem, baseDist in tenths *)

baseDist == <<35, 50, 70, 90, 140, 190, 240, 280, 350>>

Planets == 1 .. Len(baseDist)

\* PLUTO is the one eccentric body: eccentricity 0.2, inclination 0.3 rad
isEccentric(p) == p = 9
EccentricityMilli == 200
\* Math.cos(0.3) in thousandths
CosInclination == 955

\* sampled orbital angles as <<cos, sin>> in thousandths
AngleSamples == {<<1000, 0>>, <<707, 707>>, <<0, 1000>>, <<-1000, 0>>}

\* a * f / 1000 without overflow
MulMilli(a, f) == (a \div Milli) * f + ((a % Milli) * f) \div Milli

\* currentBaseDist = baseDist * initialSystemScale * agingExpansion
currentBaseDist(p, starMass, starAge) ==
    (baseDist[p] * SqrtMass(starMass) * Milli)
        \div massMultiplier(starMass, starAge)

\* distFromCenter = sqrt(x*x + z*z) of the planet's target position
distFromCenter(p, starMass, starAge, cs) ==
    LET d == currentBaseDist(p, starMass, starAge)
    IN  IF isEccentric(p)
        THEN LET e  == EccentricityMilli
                 r  == ((d \div 10) * ((Milli * Milli - e * e) \div Milli))
                           \div ((Milli * Milli + e * cs[1]) \div (10 * Milli))
                 zc == (cs[2] * CosInclination) \div Milli
             IN  MulMilli(r, Isqrt(cs[1] * cs[1] + zc * zc))
        ELSE d

\* "if (starAge > lifespan && starAge < redGiantEnd)": the ages at which the
\* Death Logic compares the star's scale with the planet's distance
deathCheckWindow(starMass, starAge) ==
    LET phys == getSystemPhysics(starMass, starAge)
    IN  /\ starAge > phys.lifespan
        /\ starAge < phys.redGiantEnd

\* Death Logic of SinglePlanet's useFrame
planetEngulfed(p, starMass, starAge, cs) ==
    LET starScale == useStarPhysics(starMass, starAge).scale
    IN  /\ deathCheckWindow(starMass, starAge)
        /\ starScale * 100 > distFromCenter(p, starMass, starAge, cs) * 95

-----------------------------------------------------------------------------
(* 3a. INNER ASTEROID BELT: sampled particles, dist in tenths (10.5 .. 13) *)

AsteroidDists == {105, 129}

\* "age > lifespan && age < redGiantEnd && starScale > currentDist * 0.9"
asteroidEngulfed(d, starMass, starAge) ==
    LET phys        == getSystemPhysics(starMass, starAge)
        starScale   == useStarPhysics(starMass, starAge).scale
        currentDist == (d * SqrtMass(starMass) * Milli)
                           \div massMultiplier(starMass, starAge)
    IN  /\ starAge > phys.lifespan
        /\ starAge < phys.redGiantEnd
        /\ starScale * 10 > currentDist * 9

-----------------------------------------------------------------------------
(* MAIN APP: state and inputs *)

\* most revert timeouts outstanding at once in the model
MaxTimers == 3

NoPlanet == 0

\* age slider: min 0, max 15, step 0.1
AgeSlider == {k * (AgeUnit \div 10) : k \in 0 .. 150}

\* masses and ages the full specification draws its slider inputs from
MassInputs == {5, 10, 39, 40, 80, 81, 150}
AgeInputs == {0, 8 * (AgeUnit \div 10), 105 * (AgeUnit \div 10),
              126 * (AgeUnit \div 10), 149 * (AgeUnit \div 10), MaxAge}

\* real time passes in steps of these many milliseconds
ElapseSteps == {500, 1000}

Min(a, b) == IF a < b THEN a ELSE b

\* lastStep names the command or callback that produced the state
StepNames == {"init", "setMass", "setAge", "toggleTime", "clockTick",
              "triggerDeath", "explosionTimeout", "reset", "Elapse",
              "handleClick", "handleBackgroundClick", "Frame",
              "callStarPhysics", "closePanel"}

TypeOK ==
    /\ mass \in MassSlider
    /\ age \in 0 .. MaxAge
    /\ exploded \in BOOLEAN
    /\ isPlaying \in BOOLEAN
    /\ focusTarget \in Planets \cup {NoPlanet}
    /\ selectedPlanet \in Planets \cup {NoPlanet}
    /\ isDead \in [Planets -> BOOLEAN]
    /\ timers \in Seq(0 .. ExplodeDelayMs)
    /\ asteroidShown \in [AsteroidDists -> BOOLEAN]
    /\ kuiperShown \in BOOLEAN
    /\ sinceEntry \in 0 .. ExplodeDelayMs
    /\ sinceTrigger \in 0 .. ExplodeDelayMs
    /\ retriggered \in BOOLEAN
    /\ resetSinceEntry \in BOOLEAN
    /\ lastStep \in StepNames

\* useState initial values of App and SinglePlanet; the instanced belts are
\* drawn at their own size until a frame says otherwise.  sinceEntry and
\* sinceTrigger measure real time since the last Normal -> Exploding entry
\* and since the last trigger (saturating at the revert delay).
Init ==
    /\ mass = 10
    /\ age = 0
    /\ exploded = FALSE
    /\ isPlaying = FALSE
    /\ focusTarget = NoPlanet
    /\ selectedPlanet = NoPlanet
    /\ isDead = [p \in Planets |-> FALSE]
    /\ timers = << >>
    /\ asteroidShown = [d \in AsteroidDists |-> TRUE]
    /\ kuiperShown = TRUE
    /\ sinceEntry = ExplodeDelayMs
    /\ sinceTrigger = ExplodeDelayMs
    /\ retriggered = FALSE
    /\ resetSinceEntry = FALSE
    /\ lastStep = "init"

sceneVars == <<focusTarget, selectedPlanet, isDead, asteroidShown, kuiperShown>>
explosionVars == <<exploded, timers, sinceEntry, sinceTrigger, retriggered,
                   resetSinceEntry>>

-----------------------------------------------------------------------------
(* Commands of the control panel *)

\* the mass slider as it would be without disabled={isPlaying}
setMassWhilePlaying(v) ==
    /\ mass' = v
    /\ lastStep' = "setMass"
    /\ UNCHANGED <<age, isPlaying, sceneVars, explosionVars>>

\* mass slider onChange (disabled while playing)
setMass(v) ==
    /\ ~isPlaying
    /\ mass' = v
    /\ lastStep' = "setMass"
    /\ UNCHANGED <<age, isPlaying, sceneVars, explosionVars>>

\* age slider onChange
setAge(v) ==
    /\ age' = v
    /\ lastStep' = "setAge"
    /\ UNCHANGED <<mass, isPlaying, sceneVars, explosionVars>>

toggleTime ==
    /\ isPlaying' = ~isPlaying
    /\ lastStep' = "toggleTime"
    /\ UNCHANGED <<mass, age, sceneVars, explosionVars>>

\* the interval callback as it would be if the timeline ended by rewinding
\* to 0 instead of holding 15
clockTickRewinds ==
    /\ isPlaying
    /\ age < MaxAge
    /\ IF age >= ClampThreshold
       THEN age' = 0 /\ isPlaying' = FALSE
       ELSE age' = age + AgeStep /\ isPlaying' = isPlaying
    /\ lastStep' = "clockTick"
    /\ UNCHANGED <<mass, sceneVars, explosionVars>>

\* the interval callback as it would be without its "prev >= 14.9" branch,
\* the effect's age < 15 condition alone ending the ticks
clockTickNoStop ==
    /\ isPlaying
    /\ age < MaxAge
    /\ age' = age + AgeStep
    /\ isPlaying' = isPlaying
    /\ lastStep' = "clockTick"
    /\ UNCHANGED <<mass, sceneVars, explosionVars>>

\* the interval callback as it would be if the clamp did not stop playback
clockTickKeepsPlaying ==
    /\ isPlaying
    /\ age < MaxAge
    /\ IF age >= ClampThreshold
       THEN age' = MaxAge /\ isPlaying' = isPlaying
       ELSE age' = age + AgeStep /\ isPlaying' = isPlaying
    /\ lastStep' = "clockTick"
    /\ UNCHANGED <<mass, sceneVars, explosionVars>>

\* the interval callback as it would be with neither the clamp nor the
\* age < 15 condition of the effect
clockTickUnclamped ==
    /\ isPlaying
    /\ age' = age + AgeStep
    /\ isPlaying' = isPlaying
    /\ lastStep' = "clockTick"
    /\ UNCHANGED <<mass, sceneVars, explosionVars>>

\* the 50 ms interval callback; the interval exists while isPlaying && age < 15
clockTick ==
    /\ isPlaying
    /\ age < MaxAge
    /\ IF age >= ClampThreshold
       THEN age' = MaxAge /\ isPlaying' = FALSE
       ELSE age' = age + AgeStep /\ isPlaying' = isPlaying
    /\ lastStep' = "clockTick"
    /\ UNCHANGED <<mass, sceneVars, explosionVars>>

\* triggerDeath as it would be if a re-trigger cancelled the pending timeout
\* and armed a new one
triggerDeathRearm ==
    /\ exploded' = TRUE
    /\ timers' = <<ExplodeDelayMs>>
    /\ sinceTrigger' = 0
    /\ IF exploded
       THEN /\ retriggered' = TRUE
            /\ UNCHANGED <<sinceEntry, resetSinceEntry>>
       ELSE /\ retriggered' = FALSE
            /\ sinceEntry' = 0
            /\ resetSinceEntry' = FALSE
    /\ lastStep' = "triggerDeath"
    /\ UNCHANGED <<mass, age, isPlaying, sceneVars>>

\* triggerDeath as it would be with a 3000 ms timeout
triggerDeathLate ==
    /\ Len(timers) < MaxTimers
    /\ exploded' = TRUE
    /\ timers' = Append(timers, ExplodeDelayMs + 1000)
    /\ sinceTrigger' = 0
    /\ IF exploded
       THEN /\ retriggered' = TRUE
            /\ UNCHANGED <<sinceEntry, resetSinceEntry>>
       ELSE /\ retriggered' = FALSE
            /\ sinceEntry' = 0
            /\ resetSinceEntry' = FALSE
    /\ lastStep' = "triggerDeath"
    /\ UNCHANGED <<mass, age, isPlaying, sceneVars>>

\* DETONATE: setExploded(true); setTimeout(() => setExploded(false), 2000)
triggerDeath ==
    /\ Len(timers) < MaxTimers
    /\ exploded' = TRUE
    /\ timers' = Append(timers, ExplodeDelayMs)
    /\ sinceTrigger' = 0
    /\ IF exploded
       THEN /\ retriggered' = TRUE
            /\ UNCHANGED <<sinceEntry, resetSinceEntry>>
       ELSE /\ retriggered' = FALSE
            /\ sinceEntry' = 0
            /\ resetSinceEntry' = FALSE
    /\ lastStep' = "triggerDeath"
    /\ UNCHANGED <<mass, age, isPlaying, sceneVars>>

\* the setTimeout callback, run when the oldest timeout is due
explosionTimeout ==
    /\ timers # << >>
    /\ Head(timers) = 0
    /\ exploded' = FALSE
    /\ timers' = Tail(timers)
    /\ lastStep' = "explosionTimeout"
    /\ UNCHANGED <<mass, age, isPlaying, sceneVars, sinceEntry, sinceTrigger,
                   retriggered, resetSinceEntry>>

\* RESET as it would be if it left the info panel's selection in place
resetKeepsSelection ==
    /\ isPlaying' = FALSE
    /\ age' = 0
    /\ exploded' = FALSE
    /\ focusTarget' = NoPlanet
    /\ selectedPlanet' = selectedPlanet
    /\ isDead' = [p \in Planets |-> FALSE]
    /\ asteroidShown' = [d \in AsteroidDists |-> TRUE]
    /\ kuiperShown' = TRUE
    /\ resetSinceEntry' = TRUE
    /\ lastStep' = "reset"
    /\ UNCHANGED <<mass, timers, sinceEntry, sinceTrigger, retriggered>>

\* RESET; the new resetKey remounts planets and belts
reset ==
    /\ isPlaying' = FALSE
    /\ age' = 0
    /\ exploded' = FALSE
    /\ focusTarget' = NoPlanet
    /\ selectedPlanet' = NoPlanet
    /\ isDead' = [p \in Planets |-> FALSE]
    /\ asteroidShown' = [d \in AsteroidDists |-> TRUE]
    /\ kuiperShown' = TRUE
    /\ resetSinceEntry' = TRUE
    /\ lastStep' = "reset"
    /\ UNCHANGED <<mass, timers, sinceEntry, sinceTrigger, retriggered>>

\* real time passes, never past a pending timeout's deadline
Elapse(d) ==
    /\ IF timers = << >> THEN TRUE ELSE d <= Head(timers)
    /\ timers' = [i \in 1 .. Len(timers) |-> timers[i] - d]
    /\ sinceEntry' = Min(sinceEntry + d, ExplodeDelayMs)
    /\ sinceTrigger' = Min(sinceTrigger + d, ExplodeDelayMs)
    /\ lastStep' = "Elapse"
    /\ UNCHANGED <<mass, age, isPlaying, sceneVars, exploded, retriggered,
                   resetSinceEntry>>

-----------------------------------------------------------------------------
(* Scene: clicks and the per-frame callbacks *)

\* catalog size of each planet's sphere, in hundredths of a scene unit
planetSize == <<15, 25, 30, 20, 80, 70, 50, 50, 25>>

\* what SinglePlanet renders: nothing once dead, otherwise its sphere at the
\* catalog size (an explosion darkens it and hides ring, moon and label)
planetRenderedSize(p) == IF isDead[p] THEN 0 ELSE planetSize[p]

\* a frame reaches the Death Logic comparison of planet p: its useFrame has
\* not returned early and the age is inside the code's window
engulfmentChecked(p) ==
    /\ ~exploded
    /\ ~isDead[p]
    /\ deathCheckWindow(mass, age)

\* SinglePlanet.handleClick; a dead planet renders nothing to click
handleClick(p) ==
    /\ ~isDead[p]
    /\ focusTarget' = p
    /\ selectedPlanet' = p
    /\ lastStep' = "handleClick"
    /\ UNCHANGED <<mass, age, isPlaying, isDead, asteroidShown, kuiperShown,
                   explosionVars>>

\* Star.handleClick and App.handleBackgroundClick
handleBackgroundClick ==
    /\ focusTarget' = NoPlanet
    /\ selectedPlanet' = NoPlanet
    /\ lastStep' = "handleBackgroundClick"
    /\ UNCHANGED <<mass, age, isPlaying, isDead, asteroidShown, kuiperShown,
                   explosionVars>>

\* closePanel of the App in hooks/useStarPhysics.js (line 733): the close
\* button of the planet panel, rendered while a planet is selected
closePanel ==
    /\ selectedPlanet # NoPlanet
    /\ selectedPlanet' = NoPlanet
    /\ lastStep' = "closePanel"
    /\ UNCHANGED <<mass, age, isPlaying, focusTarget, isDead, asteroidShown,
                   kuiperShown, explosionVars>>

\* closePanel of the updated App in the same file (line 1059)
closePanelUpdated ==
    /\ selectedPlanet # NoPlanet
    /\ focusTarget' = NoPlanet
    /\ selectedPlanet' = NoPlanet
    /\ lastStep' = "closePanel"
    /\ UNCHANGED <<mass, age, isPlaying, isDead, asteroidShown, kuiperShown,
                   explosionVars>>

\* one rendered frame: the useFrame callbacks of every SinglePlanet,
\* of AsteroidBelt and of KuiperBelt
Frame(cs) ==
    LET dies(p) == /\ ~exploded
                   /\ ~isDead[p]
                   /\ planetEngulfed(p, mass, age, cs)
    IN  /\ isDead' = [p \in Planets |-> isDead[p] \/ dies(p)]
        /\ IF \E p \in Planets : dies(p)
           THEN focusTarget' = NoPlanet /\ selectedPlanet' = NoPlanet
           ELSE UNCHANGED <<focusTarget, selectedPlanet>>
        /\ asteroidShown' = [d \in AsteroidDists |->
                                ~asteroidEngulfed(d, mass, age) /\ ~exploded]
        /\ kuiperShown' = ~exploded
        /\ lastStep' = "Frame"
        /\ UNCHANGED <<mass, age, isPlaying, explosionVars>>

-----------------------------------------------------------------------------
(* Specifications *)

\* every command and callback of the App
Next ==
    \/ \E v \in MassInputs : setMass(v)
    \/ \E v \in AgeInputs : setAge(v)
    \/ toggleTime
    \/ clockTick
    \/ triggerDeath
    \/ explosionTimeout
    \/ reset
    \/ \E d \in ElapseSteps : Elapse(d)
    \/ \E p \in Planets : handleClick(p)
    \/ handleBackgroundClick
    \/ \E cs \in AngleSamples : Frame(cs)

Spec == Init /\ [][Next]_vars

\* the explosion state machine in real time, with reset, the age slider
\* and the frames that draw its effect
NextExplosion ==
    \/ triggerDeath
    \/ explosionTimeout
    \/ reset
    \/ \E d \in ElapseSteps : Elapse(d)
    \/ \E v \in AgeInputs : setAge(v)
    \/ \E cs \in AngleSamples : Frame(cs)

SpecExplosion == Init /\ [][NextExplosion]_vars

\* the simulation clock and the sliders over their whole range
NextClock ==
    \/ \E v \in MassInputs : setMass(v)
    \/ \E v \in AgeSlider : setAge(v)
    \/ toggleTime
    \/ clockTick
    \/ reset
    \/ \E cs \in AngleSamples : Frame(cs)

SpecClock == Init /\ [][NextClock]_vars

\* the pure physics functions for every mass of the slider, the age moved by
\* the age slider and by the running clock, applied by the frame callbacks
InitPhysics ==
    /\ mass \in MassSlider
    /\ age = 0
    /\ exploded = FALSE
    /\ isPlaying = FALSE
    /\ focusTarget = NoPlanet
    /\ selectedPlanet = NoPlanet
    /\ isDead = [p \in Planets |-> FALSE]
    /\ timers = << >>
    /\ asteroidShown = [d \in AsteroidDists |-> TRUE]
    /\ kuiperShown = TRUE
    /\ sinceEntry = ExplodeDelayMs
    /\ sinceTrigger = ExplodeDelayMs
    /\ retriggered = FALSE
    /\ resetSinceEntry = FALSE
    /\ lastStep = "init"

NextPhysics ==
    \/ \E v \in AgeInputs : setAge(v)
    \/ toggleTime
    \/ clockTick
    \/ \E cs \in AngleSamples : Frame(cs)

SpecPhysics == InitPhysics /\ [][NextPhysics]_vars

\* uninterrupted play from age 0: PLAY is pressed once at age 0 and then only
\* the clock and the renderer run; frames come at 60 Hz and ticks at 20 Hz,
\* so a frame is rendered at every age before the next tick leaves it
startPlay == ~isPlaying /\ age = 0 /\ toggleTime

tickAfterFrame == lastStep = "Frame" /\ clockTick

NextPlay ==
    \/ startPlay
    \/ tickAfterFrame
    \/ \E cs \in AngleSamples : Frame(cs)

SpecPlay == InitPhysics /\ [][NextPlay]_vars

\* the scene facet: selection, explosion, reset and the sliders, without
\* the clock
SceneMassInputs == {10, 150}
SceneAgeInputs == {0, MaxAge}
ScenePlanets == {1, 9}

NextScene ==
    \/ \E v \in SceneMassInputs : setMass(v)
    \/ \E v \in SceneAgeInputs : setAge(v)
    \/ toggleTime
    \/ triggerDeath
    \/ explosionTimeout
    \/ reset
    \/ Elapse(ExplodeDelayMs \div 2)
    \/ \E p \in ScenePlanets : handleClick(p)
    \/ handleBackgroundClick
    \/ \E cs \in AngleSamples : Frame(cs)

SpecScene == Init /\ [][NextScene]_vars

\* the scene facet of the App in hooks/useStarPhysics.js (line 686), whose
\* planet panel has a close button
NextPanel ==
    \/ NextScene
    \/ closePanel

SpecPanel == Init /\ [][NextPanel]_vars

\* the same with the updated App (line 1013)
NextPanelUpdated ==
    \/ NextScene
    \/ closePanelUpdated

SpecPanelUpdated == Init /\ [][NextPanelUpdated]_vars

\* the mass facet: the mass slider against playback, the clock and the
\* explosion with its timeouts
NextMass ==
    \/ \E v \in SceneMassInputs : setMass(v)
    \/ toggleTime
    \/ clockTick
    \/ triggerDeath
    \/ explosionTimeout
    \/ Elapse(ExplodeDelayMs)

SpecMass == Init /\ [][NextMass]_vars

\* a single run of the clock: the age slider is set, PLAY is pressed once at
\* an age below 15 and no command follows; setInterval keeps calling the
\* callback every 50 ms while the interval exists (weak fairness)
commandFree == lastStep \in {"init", "setAge"}

pressPlay == commandFree /\ ~isPlaying /\ age < MaxAge /\ toggleTime

NextRun ==
    \/ \E v \in AgeSlider : commandFree /\ setAge(v)
    \/ pressPlay
    \/ clockTick
    \/ \E cs \in AngleSamples : Frame(cs)

SpecRun == Init /\ [][NextRun]_vars /\ WF_vars(clockTick)

\* the two physics functions called directly, with arguments no slider
\* restricts: masses -1 and 0 beside slider masses
CoreMassInputs == {0 - 10, 0} \cup MassInputs

callStarPhysics(m, a) ==
    /\ mass' = m
    /\ age' = a
    /\ lastStep' = "callStarPhysics"
    /\ UNCHANGED <<isPlaying, sceneVars, explosionVars>>

NextCore == \E m \in CoreMassInputs : \E a \in AgeSlider : callStarPhysics(m, a)

SpecCore == Init /\ [][NextCore]_vars

\* in no state the sliders and the clock can produce does the star's scale
\* overtake a planet or an inner-belt particle
NeverEngulfed ==
    /\ \A p \in Planets : ~isDead[p]
    /\ \A p \in Planets : \A cs \in AngleSamples :
           ~planetEngulfed(p, mass, age, cs)
    /\ \A d \in AsteroidDists : ~asteroidEngulfed(d, mass, age)

-----------------------------------------------------------------------------
(* Explosion state machine: claims C1 - C5 *)

\* a timeout has reached its deadline and its callback has not run yet
TimerDue == timers # << >> /\ Head(timers) = 0

\* C1: when the explosion entered at t0 is re-triggered before t0 + 2000 ms,
\* the system is back to Normal once t0 + 2000 ms is reached and the due
\* callback has run: the re-trigger does not move the revert to t1 + 2000 ms.
C1_RetriggerKeepsDeadline ==
    (retriggered /\ sinceEntry >= ExplodeDelayMs /\ ~TimerDue) => ~exploded

\* C1 witness: 2000 ms after a re-triggered entry the system is Normal while
\* the re-trigger's own timeout is still pending
C1_Witness ==
    /\ retriggered
    /\ ~resetSinceEntry
    /\ sinceEntry = ExplodeDelayMs
    /\ ~exploded
    /\ timers # << >>
    /\ Head(timers) > 0

\* C2: at most one explosion auto-revert timeout is pending in every
\* reachable state.
C2_AtMostOneTimer == Len(timers) <= 1

\* C3: after a reset (and until the next explosion is entered) the system is
\* Normal and no revert timeout scheduled before the reset is still pending.
C3_ResetLeavesNoTimer == resetSinceEntry => (~exploded /\ timers = << >>)

\* C4: absent a reset, the system is Exploding throughout the 2000 ms that
\* follow every Normal -> Exploding entry.
C4_ExplodingForTwoSeconds ==
    (sinceEntry < ExplodeDelayMs /\ ~resetSinceEntry) => exploded

\* C5: a trigger makes the explosion state true in the very step that
\* schedules its timeout, and once 2000 ms have passed since the last trigger
\* and the due callbacks have run the explosion state is false.
C5_TriggerThenRevert ==
    /\ [][Len(timers') = Len(timers) + 1 => exploded']_vars
    /\ []((sinceTrigger >= ExplodeDelayMs /\ ~TimerDue) => ~exploded)

\* C5 witness: 2000 ms after the last of several triggers every timeout has
\* run and the system is Normal
C5_Witness ==
    /\ retriggered
    /\ sinceTrigger = ExplodeDelayMs
    /\ timers = << >>
    /\ ~exploded

-----------------------------------------------------------------------------
(* Physics functions and the clock: claims C7 - C10 *)

C8_MassMultiplier ==
    LET mm == massMultiplier(mass, age)
        L  == Lifespan(mass)
        E  == RedGiantEnd(mass)
    IN  /\ age <= L => mm = Milli
        /\ age >= E => mm * 10 = Milli * 4
        /\ (L < age /\ age < E) =>
              LET exact == Milli * (E - L) - 600 * (age - L)
              IN  /\ exact <= mm * (E - L)
                  /\ mm * (E - L) < exact + (E - L)

\* C8 witness: mass 1 at age 12.6 = redGiantEnd has multiplier 0.4
C8_Witness ==
    /\ mass = 10
    /\ age = RedGiantEnd(mass)
    /\ age > Lifespan(mass)
    /\ massMultiplier(mass, age) * 10 = Milli * 4

\* C9: currentMass lies between 0.4 mass and mass and is positive.
C9_CurrentMassBounds ==
    LET currentMass == getSystemPhysics(mass, age).currentMass
    IN  /\ currentMass > 0
        /\ 4 * mass * Milli <= 10 * currentMass
        /\ currentMass <= mass * Milli

\* C9 witness: the clock has run past redGiantEnd and currentMass sits on
\* the floor 0.4 mass
C9_Witness ==
    /\ isPlaying
    /\ age > RedGiantEnd(mass)
    /\ age % (2 * AgeStep) = AgeStep
    /\ 10 * getSystemPhysics(mass, age).currentMass = 4 * mass * Milli

\* C10: every clock tick sets age to min(age + 0.05, 15).
C10_TickIsMinStep ==
    [][clockTick => age' = Min(age + AgeStep, MaxAge)]_vars

-----------------------------------------------------------------------------
(* Clock: claims C11 - C13 *)

\* the condition under which the effect keeps an interval running
TickScheduled == isPlaying /\ age < MaxAge

\* C11: after the clock tick that sets age to 15, isPlaying is false and no
\* further tick is scheduled.
C11_ClampStopsPlayback ==
    (lastStep = "clockTick" /\ age = MaxAge) => (~isPlaying /\ ~TickScheduled)

\* a tick has just clamped the age at 15
C11_Witness == lastStep = "clockTick" /\ age = MaxAge /\ ~isPlaying

\* C12: age stays within [0, 15] in every reachable state, whatever the
\* interleaving of ticks, age settings, play/pause toggles and resets.
C12_AgeInRange == 0 <= age /\ age <= MaxAge

\* playback is on with the age at its maximum (slider pushed to 15 while playing)
C12_Witness == isPlaying /\ age = MaxAge /\ lastStep = "setAge"

\* C13: no transition between two states in which playback is active lowers
\* the age.
C13_AgeMonotoneWhilePlaying == [][(isPlaying /\ isPlaying') => age' >= age]_vars

-----------------------------------------------------------------------------
(* Explosion and rendering: claim C14 *)

\* C14: in a frame rendered while the explosion state is active, every
\* planet, inner-belt particle and outer-belt particle has size zero.
C14_ExplodedBodiesZeroSize ==
    (exploded /\ lastStep = "Frame") =>
        /\ \A p \in Planets : planetRenderedSize(p) = 0
        /\ \A d \in AsteroidDists : ~asteroidShown[d]
        /\ ~kuiperShown

-----------------------------------------------------------------------------
(* Engulfment: claims C16, C18 *)

\* the ages at which useStarPhysics reports the Red Giant stage
InRedGiantWindow == Lifespan(mass) <= age /\ age < RedGiantEnd(mass)

\* C16: the engulfment check of every non-inert planet is evaluated exactly
\* when lifespan <= age < redGiantEnd, and a frame makes a planet inert iff
\* the age is in that window and the star's scale exceeds 0.95 times the
\* planet's distance; outside the window no planet becomes inert.
C16_EngulfmentWindow ==
    /\ [](\A p \in Planets :
             ~isDead[p] => (engulfmentChecked(p) <=> InRedGiantWindow))
    /\ [][\A p \in Planets :
             (~isDead[p] /\ isDead'[p]) <=>
                 /\ lastStep' = "Frame"
                 /\ ~isDead[p]
                 /\ InRedGiantWindow
                 /\ \E cs \in AngleSamples :
                        useStarPhysics(mass, age).scale * 100
                            > distFromCenter(p, mass, age, cs) * 95]_vars

\* the supremum of the Red Giant scale baseSize * (1 + progress * 5)
maxRedGiantScale(m) == BaseSize(m) * 6

\* baseDistance < maximum red-giant scale / 0.95
InsideMaxGiant(p, m) == baseDist[p] * Milli * 95 < maxRedGiantScale(m) * 100

\* C18: under uninterrupted play from age 0, a planet whose baseDistance is
\* below the star's maximum red-giant scale / 0.95 is inert and invisible
\* once the red-giant window has closed, and an inert planet stays inert.
C18_InnerPlanetsEngulfed ==
    /\ [](\A p \in Planets :
             (InsideMaxGiant(p, mass) /\ age >= RedGiantEnd(mass)) =>
                 (isDead[p] /\ planetRenderedSize(p) = 0))
    /\ [][\A p \in Planets : isDead[p] => isDead'[p]]_vars

-----------------------------------------------------------------------------
(* Reset: claim C19 *)

\* C19: the state a reset produces has every planet and belt particle
\* present and non-inert, focus and selection cleared, the explosion state
\* Normal, playback stopped and age 0, with mass as it was before the reset.
C19_ResetPostState ==
    [][lastStep' = "reset" =>
          /\ \A p \in Planets : ~isDead'[p]
          /\ \A d \in AsteroidDists : asteroidShown'[d]
          /\ kuiperShown'
          /\ focusTarget' = NoPlanet
          /\ selectedPlanet' = NoPlanet
          /\ ~exploded'
          /\ ~isPlaying'
          /\ age' = 0
          /\ mass' = mass]_vars

\* a reset pressed during an explosion, with the mass slider moved off its
\* initial value
C19_Witness ==
    lastStep = "reset" /\ timers # << >> /\ sinceEntry < ExplodeDelayMs /\ mass # 10

-----------------------------------------------------------------------------
(* Stellar lifecycle functions: claims C21 - C23 *)

\* C21: whatever mass the functions are called with, the lifespan that
\* stage selection compares the age against is a finite number (an
\* out-of-range mass having been clamped or rejected first).
C21_DefensiveInputs ==
    lastStep = "callStarPhysics" => lifespanOf(mass).kind = "finite"

\* C22: for every slider mass the lifespan is positive, redGiantEnd is 1.2
\* times the lifespan (to the fixed-point unit) and larger than it, and the
\* stage boundaries useStarPhysics applies are the lifespan and redGiantEnd
\* getSystemPhysics returns.
C22_LifespanContract ==
    LET phys  == getSystemPhysics(mass, age)
        stage == useStarPhysics(mass, age).stage
    IN  /\ phys.lifespan > 0
        /\ 10 * phys.redGiantEnd <= 12 * phys.lifespan
        /\ 12 * phys.lifespan < 10 * phys.redGiantEnd + 10
        /\ phys.redGiantEnd > phys.lifespan
        /\ (stage = "Main Sequence") <=> (age < phys.lifespan)
        /\ (stage \in {"SUPERNOVA", "White Dwarf"}) <=> (age >= phys.redGiantEnd)

\* the clock has run to 15 at the low end of the mass range, where the
\* lifespan (57 BY) is largest
C22_Witness ==
    /\ mass = 5
    /\ age = MaxAge
    /\ lastStep = "clockTick"
    /\ getSystemPhysics(mass, age).lifespan > MaxAge

\* C23: the star's scale is baseSize = ln(mass + 1) * 1.5 in Main Sequence
\* (1.0397 at mass 1, 4.1589 at mass 15); baseSize * (1 + 5 * progress) in
\* Red Giant, to within the fixed-point rounding, which is baseSize at
\* age = lifespan and stays below 6 * baseSize; half of baseSize for
\* SUPERNOVA and a fifth of it for White Dwarf.
C23_ScaleByStage ==
    LET star == useStarPhysics(mass, age)
        b    == BaseSize(mass)
        L    == Lifespan(mass)
        E    == RedGiantEnd(mass)
    IN  /\ mass = 10 => (10392 <= b /\ b <= 10402)
        /\ mass = 150 => (41584 <= b /\ b <= 41594)
        /\ star.stage = "Main Sequence" => star.scale = b
        /\ star.stage = "Red Giant" =>
               /\ b <= star.scale /\ star.scale < 6 * b
               /\ age = L => star.scale = b
               /\ star.scale * (E - L) <= b * ((E - L) + 5 * (age - L))
               /\ b * ((E - L) + 5 * (age - L))
                      < (star.scale + b \div 200 + 2) * (E - L)
        /\ star.stage = "SUPERNOVA" =>
               (10 * star.scale <= 5 * b /\ 5 * b < 10 * star.scale + 10)
        /\ star.stage = "White Dwarf" =>
               (10 * star.scale <= 2 * b /\ 2 * b < 10 * star.scale + 10)

\* scenario 3: mass 10 played past redGiantEnd is a SUPERNOVA of half the
\* base size
C23_Witness ==
    /\ mass = 100
    /\ lastStep = "clockTick"
    /\ useStarPhysics(mass, age).stage = "SUPERNOVA"
    /\ useStarPhysics(mass, age).scale = BaseSize(mass) \div 2

-----------------------------------------------------------------------------
(* Clock: claims C24, C25, C28, C30 *)

\* C24: in every reachable state isPlaying implies age < 15.
C24_PlayingBelowMaxAge == isPlaying => age < MaxAge

C28_MassFrozenWhilePlaying ==
    [][/\ isPlaying => mass' = mass
       /\ lastStep' \in {"clockTick", "triggerDeath", "explosionTimeout"}
              => mass' = mass]_vars

\* playback is on with the mass moved off its initial value, and an
\* explosion has just reverted
C28_Witness ==
    /\ isPlaying
    /\ age > 0
    /\ mass = 150
    /\ lastStep = "explosionTimeout"

\* the stages in the order of the star's life
stageRank(stage) ==
    IF stage = "Main Sequence" THEN 1
    ELSE IF stage = "Red Giant" THEN 2
    ELSE 3

\* C30: under uninterrupted play the stage never moves back in the order
\* Main Sequence, Red Giant, remnant, and a remnant keeps its kind.
C30_StageNeverRegresses ==
    [][LET before == useStarPhysics(mass, age).stage
           after  == useStarPhysics(mass', age').stage
       IN  /\ stageRank(after) >= stageRank(before)
           /\ before \in {"SUPERNOVA", "White Dwarf"} => after = before]_vars

\* a star of at most 8 solar masses played to the end of the timeline is a
\* White Dwarf
C30_Witness ==
    /\ lastStep = "clockTick"
    /\ age = MaxAge
    /\ useStarPhysics(mass, age).stage = "White Dwarf"

-----------------------------------------------------------------------------
(* Focus and selection: claim C27 *)

\* C27: in every reachable state focusTarget is null iff selectedPlanet is
\* null.
C27_FocusIffSelection == (focusTarget = NoPlanet) <=> (selectedPlanet = NoPlanet)

=============================================================================
